---- MODULE Spec2Model ----
(***************************************************************************)
(* image-server (main.go): a file store behind HMAC-signed URLs.           *)
(*                                                                         *)
(* Strings are sequences of one-character strings, so that formatting,     *)
(* parsing and concatenation are computed and not assumed.  HMAC-SHA256    *)
(* followed by hex encoding is the one primitive that is idealised: it is  *)
(* a collision-free function of (key, message).                            *)
(***************************************************************************)
EXTENDS Integers, Sequences, FiniteSets, TLC

VARIABLES
    now,         \* time.Now().Unix()
    req,         \* the request being served, or served last
    verdict,     \* what validateUrl said of req: "pending", "accept", "reject"
    resp,        \* the response to req
    handlerRan,  \* whether the middleware called c.Next() for req
    dirExists,   \* whether the storage directory exists
    files,       \* the storage directory: file name -> bytes
    issued,      \* the identifiers uuid.New() has returned
    removed,     \* names a DELETE answered 200 for, since the last upload
    touched,     \* the paths the handler of req opened, created or removed
    overwrote,   \* the bytes os.Create truncated away for req
    before,      \* for a GET: the upload or update of the same file that was
                 \* answered 200 just before it, if any
    inflight,    \* the requests served concurrently: worker -> its handler's
                 \* position and locals
    lastWriter,  \* file name -> the body of the request that wrote to it last
    uploaded     \* file name -> the bodies POST and PUT requests sent for it

vars == <<now, req, verdict, resp, handlerRan, dirExists, files, issued, removed,
          touched, overwrote, before, inflight, lastWriter, uploaded>>

\* the variables of the concurrent handlers
concVars == <<inflight, lastWriter, uploaded>>

(***************************************************************************)
(* Bounds.                                                                 *)
(***************************************************************************)
\* time.Now().Unix() ranges over 0..MaxNow
MaxNow == 2

(***************************************************************************)
(* Process configuration (main.go init).                                   *)
(***************************************************************************)
\* secretKey = getEnv("SECRET_KEY", ""), required to be non-empty
secretKey == "s3cr3t"

\* a key the server does not hold (the fallback of generate-signed-url.js)
OtherKey == "secret-key"

\* uploadDirPath = getEnv("UPLOAD_DIR_PATH", "uploads"), as path elements
uploadDirPath == <<"uploads">>

(***************************************************************************)
(* Strings.                                                                *)
(***************************************************************************)
GET == <<"G", "E", "T">>
POST == <<"P", "O", "S", "T">>
PUT == <<"P", "U", "T">>
DELETE == <<"D", "E", "L", "E", "T", "E">>

\* the methods main registers a protected route for
Methods == {GET, POST, PUT, DELETE}

Digits == {"0", "1", "2", "3", "4", "5", "6", "7", "8", "9"}

DigitVal(c) ==
    CASE c = "0" -> 0 [] c = "1" -> 1 [] c = "2" -> 2 [] c = "3" -> 3
      [] c = "4" -> 4 [] c = "5" -> 5 [] c = "6" -> 6 [] c = "7" -> 7
      [] c = "8" -> 8 [] c = "9" -> 9

DigitChar(d) ==
    CASE d = 0 -> "0" [] d = 1 -> "1" [] d = 2 -> "2" [] d = 3 -> "3"
      [] d = 4 -> "4" [] d = 5 -> "5" [] d = 6 -> "6" [] d = 7 -> "7"
      [] d = 8 -> "8" [] d = 9 -> "9"

RECURSIVE StripZeros(_)
\* a digit string without its leading zeros ("0" for zero)
StripZeros(ds) ==
    IF Len(ds) > 1 /\ Head(ds) = "0" THEN StripZeros(Tail(ds)) ELSE ds

RECURSIVE LexLess(_, _)
\* a < b for digit strings of equal length
LexLess(a, b) ==
    IF a = <<>> THEN FALSE
    ELSE IF Head(a) # Head(b) THEN DigitVal(Head(a)) < DigitVal(Head(b))
    ELSE LexLess(Tail(a), Tail(b))

\* a < b for digit strings without leading zeros
MagLess(a, b) ==
    \/ Len(a) < Len(b)
    \/ Len(a) = Len(b) /\ LexLess(a, b)

\* 1<<63 - 1 and 1<<63, the magnitudes strconv.ParseInt(s, 10, 64) cuts off at
MaxInt64Mag ==
    <<"9","2","2","3","3","7","2","0","3","6","8","5","4","7","7","5","8","0","7">>

MinInt64Mag ==
    <<"9","2","2","3","3","7","2","0","3","6","8","5","4","7","7","5","8","0","8">>

\* An int64 is kept as sign and magnitude, [neg, mag], the magnitude a digit
\* string without leading zeros: 64-bit values are beyond TLC's integers.
Int64(neg, mag) == [neg |-> neg /\ mag # <<"0">>, mag |-> mag]

\* strconv.ParseInt(s, 10, 64): [err, val]
ParseInt(s) ==
    IF s = <<>> THEN [err |-> TRUE, val |-> Int64(FALSE, <<"0">>)]
    ELSE
    LET signed == Head(s) \in {"+", "-"}
        neg == Head(s) = "-"
        body == IF signed THEN Tail(s) ELSE s
    IN  IF body = <<>> \/ \E i \in 1..Len(body) : body[i] \notin Digits
        THEN [err |-> TRUE, val |-> Int64(FALSE, <<"0">>)]
        ELSE LET mag == StripZeros(body)
             IN  IF ~neg /\ MagLess(MaxInt64Mag, mag)
                 THEN [err |-> TRUE, val |-> Int64(FALSE, MaxInt64Mag)]
                 ELSE IF neg /\ MagLess(MinInt64Mag, mag)
                 THEN [err |-> TRUE, val |-> Int64(TRUE, MinInt64Mag)]
                 ELSE [err |-> FALSE, val |-> Int64(neg, mag)]

\* fmt's %d of an int64
FormatInt(v) == IF v.neg THEN <<"-">> \o v.mag ELSE v.mag

RECURSIVE NatDigits(_)
\* the decimal digits of a natural number
NatDigits(n) ==
    IF n < 10 THEN <<DigitChar(n)>>
    ELSE NatDigits(n \div 10) \o <<DigitChar(n % 10)>>

\* the int64 of a natural number
OfNat(n) == Int64(FALSE, NatDigits(n))

\* a < b on int64
Int64Less(a, b) ==
    IF a.neg /\ ~b.neg THEN TRUE
    ELSE IF ~a.neg /\ b.neg THEN FALSE
    ELSE IF a.neg THEN MagLess(b.mag, a.mag)
    ELSE MagLess(a.mag, b.mag)

(***************************************************************************)
(* Token validation (main.go validateUrl, generate-signed-url.js).         *)
(***************************************************************************)
\* the signing string without the method
SigningStringNoMethod(method, filename, expires) ==
    filename \o <<":">> \o FormatInt(expires)

\* the signing string without the filename
SigningStringNoFilename(method, filename, expires) ==
    method \o <<":">> \o FormatInt(expires)

\* the three fields printed one after the other with no separator
SigningStringNoSeparators(method, filename, expires) ==
    method \o filename \o FormatInt(expires)

\* fmt.Sprintf("%s:%s:%d", method, filename, expires)
SigningString(method, filename, expires) ==
    method \o <<":">> \o filename \o <<":">> \o FormatInt(expires)

\* hex.EncodeToString of the HMAC-SHA256 of data under key: lowercase hex
HmacHex(key, data) == <<"hex", key, data>>

\* the same digest printed in uppercase hex
UpperHex(sig) == <<"HEX", sig[2], sig[3]>>

\* generateSignedUrl: the signature the minting tool puts in the URL
Sign(key, method, filename, expires) ==
    HmacHex(key, SigningString(method, filename, expires))

\* the comparison written >= instead of >
ExpiredAtEquality(t, expires) == ~Int64Less(OfNat(t), expires)

\* time.Now().Unix() > expires
Expired(t, expires) == Int64Less(expires, OfNat(t))

\* the validator signing the expires parameter as it was sent, not as parsed
validateUrlRawExpires(r, t) ==
    IF r.expires = <<>> \/ r.signature = <<>> THEN FALSE
    ELSE LET p == ParseInt(r.expires)
         IN  IF p.err \/ Expired(t, p.val) THEN FALSE
             ELSE r.signature =
                    HmacHex(secretKey,
                            r.method \o <<":">> \o r.filename \o <<":">> \o r.expires)

\* validateUrl(c) at Unix time t, for the request r
validateUrl(r, t) ==
    IF r.expires = <<>> \/ r.signature = <<>> THEN FALSE
    ELSE LET p == ParseInt(r.expires)
         IN  IF p.err \/ Expired(t, p.val) THEN FALSE
             ELSE r.signature = Sign(secretKey, r.method, r.filename, p.val)

(***************************************************************************)
(* Requests.                                                               *)
(***************************************************************************)
\* what the handlers read of a request: c.Request.Method, c.Param("filename"),
\* c.Query("expires"), c.Query("signature") and the multipart part "file"
Request(method, filename, expires, signature, hasFile, origName, body) ==
    [method |-> method, filename |-> filename, expires |-> expires,
     signature |-> signature, hasFile |-> hasFile, origName |-> origName,
     body |-> body]

\* a request with no multipart body
Bare(method, filename, expires, signature) ==
    Request(method, filename, expires, signature, FALSE, <<>>, <<>>)

NoRequest == Bare(<<>>, <<>>, <<>>, <<>>)

NoResponse == [status |-> 0, body |-> <<>>, filename |-> <<>>]

NoBefore == [method |-> <<>>, body |-> <<>>, over |-> <<>>]

\* the goroutines net/http serves requests on, one per connection
Workers == {"w1", "w2"}

\* a worker that serves no request: pc is the handler's position, off the
\* offset of its open file, linked whether that file is still in the
\* directory, status and out the response
NoWorker ==
    [method |-> <<>>, filename |-> <<>>, body |-> <<>>, pc |-> "idle", off |-> 0,
     linked |-> FALSE, status |-> 0, out |-> <<>>]

\* no request is being served and none has written
NoneInFlight ==
    /\ inflight = [w \in Workers |-> NoWorker]
    /\ lastWriter = [n \in {} |-> <<>>]
    /\ uploaded = [n \in {} |-> {}]

\* the strings one character away from s: one character of s replaced by a
\* character of alphabet, one character of alphabet inserted, or one removed
Edits(s, alphabet) ==
    ( { [s EXCEPT ![i] = c] : i \in 1..Len(s), c \in alphabet }
      \cup { SubSeq(s, 1, i) \o <<c>> \o SubSeq(s, i + 1, Len(s)) :
               i \in 0..Len(s), c \in alphabet }
      \cup { SubSeq(s, 1, i - 1) \o SubSeq(s, i + 1, Len(s)) : i \in 1..Len(s) } )
    \ {s}

MethodAlphabet == {"X"}

NameAlphabet == {"a", ":", "1"}

ExpiresAlphabet == {"0", "1", "8", "+", "-", "x"}

\* the file names tokens are minted for
TokenNames == {<<"a">>, <<"a", "1">>}

\* the (method, filename) pairs main registers a protected route for:
\* /images/:filename matches a non-empty segment, POST /images has no filename
Routes ==
    { <<m, f>> : m \in {GET, PUT, DELETE}, f \in TokenNames } \cup {<<POST, <<>>>>}

\* the expiry times tokens are minted for
TokenExpires ==
    { OfNat(n) : n \in 0..(MaxNow + 1) }
      \cup {OfNat(10), Int64(TRUE, <<"1">>)}

\* a token is the triple its signature is minted over
Tokens ==
    { [method |-> r[1], filename |-> r[2], expires |-> e] :
        r \in Routes, e \in TokenExpires }

SignatureOf(key, tok) == Sign(key, tok.method, tok.filename, tok.expires)

\* the signature a holder of the secret would mint for the request as it is
\* presented, when its expires parses
OwnSignatures(method, filename, expires) ==
    IF ParseInt(expires).err THEN {}
    ELSE {Sign(secretKey, method, filename, ParseInt(expires).val)}

\* the requests that present the token as minted, with the signature as minted,
\* in uppercase, minted under another key, and left out
PresentedAsMinted(tok) ==
    { Bare(tok.method, tok.filename, FormatInt(tok.expires), sig) :
        sig \in { SignatureOf(secretKey, tok), UpperHex(SignatureOf(secretKey, tok)),
                  SignatureOf(OtherKey, tok), <<>> } }

\* the requests that present the token with one of method, filename and
\* expires changed (by one character, or to another routed method), under the
\* minted signature or under the signature the changed request would need
PresentedChanged(tok) ==
    LET e == FormatInt(tok.expires)
        changed ==
            { <<m, tok.filename, e>> :
                m \in (Methods \cup Edits(tok.method, MethodAlphabet)) \ {tok.method} }
            \cup { <<tok.method, f, e>> : f \in Edits(tok.filename, NameAlphabet) }
            \cup { <<tok.method, tok.filename, x>> : x \in Edits(e, ExpiresAlphabet) }
    IN  UNION { { Bare(c[1], c[2], c[3], sig) :
                    sig \in {SignatureOf(secretKey, tok)}
                              \cup OwnSignatures(c[1], c[2], c[3]) } :
                c \in changed }

\* the request that presents the token on POST /images, where c.Param("filename")
\* is the empty string
PresentedOnUpload(tok) ==
    {Bare(POST, <<>>, FormatInt(tok.expires), SignatureOf(secretKey, tok))}

\* expires parameters at the ends of the int64 range: the largest and the
\* smallest int64, and the first numbers beyond them
RangeEnds ==
    { MaxInt64Mag, MinInt64Mag, <<"-">> \o MinInt64Mag,
      <<"-">> \o [MinInt64Mag EXCEPT ![19] = "9"] }

\* requests whose expires is at an end of the int64 range, signed over the
\* value strconv.ParseInt returns for it
PresentedAtRangeEnds ==
    { Bare(r[1], r[2], x, Sign(secretKey, r[1], r[2], ParseInt(x).val)) :
        r \in Routes, x \in RangeEnds }

AuthRequests ==
    PresentedAtRangeEnds
      \cup UNION { PresentedAsMinted(tok) \cup PresentedChanged(tok)
                     \cup PresentedOnUpload(tok) : tok \in Tokens }

(***************************************************************************)
(* The validator on its own: the inputs are drawn at the start and         *)
(* validateUrl is applied to them.                                         *)
(***************************************************************************)
InitAuth ==
    /\ now \in 0..MaxNow
    /\ req \in AuthRequests
    /\ verdict = "pending"
    /\ resp = NoResponse
    /\ handlerRan = FALSE
    /\ dirExists = TRUE
    /\ files = [n \in {} |-> <<>>]
    /\ issued = {}
    /\ removed = {}
    /\ touched = {}
    /\ overwrote = <<>>
    /\ before = NoBefore
    /\ NoneInFlight

\* the check of validateUrl that fails on r at time t: a query parameter is
\* empty, expires does not parse, the token is expired, the signature is not
\* the expected one; "none" when validateUrl returns true
FailedCheck(r, t) ==
    IF r.expires = <<>> \/ r.signature = <<>> THEN "missing"
    ELSE IF ParseInt(r.expires).err THEN "unparsable"
    ELSE IF Expired(t, ParseInt(r.expires).val) THEN "expired"
    ELSE IF r.signature # Sign(secretKey, r.method, r.filename, ParseInt(r.expires).val)
    THEN "mismatched"
    ELSE "none"

\* a 403 whose body names the check that failed
ForbiddenNamingTheCheck ==
    [status |-> 403, body |-> <<"error", FailedCheck(req, now)>>, filename |-> <<>>]

\* c.JSON(http.StatusForbidden, gin.H{"error": "Invalid or expired URL"})
Forbidden ==
    [status |-> 403, body |-> <<"error", "Invalid or expired URL">>, filename |-> <<>>]

\* SignedURLMiddleware on the drawn request: 403 and c.Abort(), or c.Next()
Validate ==
    /\ verdict = "pending"
    /\ IF validateUrl(req, now)
       THEN /\ verdict' = "accept"
            /\ handlerRan' = TRUE
            /\ resp' = resp
       ELSE /\ verdict' = "reject"
            /\ handlerRan' = FALSE
            /\ resp' = Forbidden
    /\ UNCHANGED <<now, req, dirExists, files, issued, removed, touched, overwrote,
                   before>>
    /\ UNCHANGED concVars

NextAuth == Validate

SpecAuth == InitAuth /\ [][NextAuth]_vars

(***************************************************************************)
(* Claims about the validator, checked under SpecAuth.                     *)
(***************************************************************************)
\* the Unix time t is greater than the int64 e
After(t, e) == e.neg \/ MagLess(e.mag, NatDigits(t))

\* req presents tok exactly as minted under the process secret
AsMinted(tok) ==
    req = Bare(tok.method, tok.filename, FormatInt(tok.expires),
               SignatureOf(secretKey, tok))

\* C1: validateUrl accepts a request if and only if expires and signature are
\* both non-empty, expires parses as a base-10 int64, the current time is not
\* greater than it, and signature is the lowercase hex HMAC-SHA256 of
\* method:filename:expires under the process secret; in particular every
\* token presented as minted with expires >= now is accepted.
C1_AcceptIff ==
    verdict # "pending" =>
      /\ (verdict = "accept") <=>
           /\ req.expires # <<>>
           /\ req.signature # <<>>
           /\ ~ParseInt(req.expires).err
           /\ ~After(now, ParseInt(req.expires).val)
           /\ req.signature =
                HmacHex(secretKey,
                        req.method \o <<":">> \o req.filename \o <<":">>
                          \o FormatInt(ParseInt(req.expires).val))
      /\ \A tok \in Tokens :
           AsMinted(tok) /\ ~After(now, tok.expires) => verdict = "accept"

\* C1 witness: a token presented as minted, expiring exactly now, was accepted
C1_Witness ==
    /\ verdict = "accept"
    /\ \E tok \in Tokens : AsMinted(tok) /\ tok.expires = OfNat(now)

\* C2: a signature minted for GET on (f, e), not yet expired, is answered 403
\* when presented with the same expires on PUT or DELETE for f or on
\* POST /images.
C2_GetTokenMethodBound ==
    \A tok \in Tokens :
      ( /\ verdict # "pending"
        /\ tok.method = GET
        /\ ~After(now, tok.expires)
        /\ req.signature = SignatureOf(secretKey, tok)
        /\ req.expires = FormatInt(tok.expires)
        /\ \/ req.method \in {PUT, DELETE} /\ req.filename = tok.filename
           \/ req.method = POST /\ req.filename = <<>> )
      => verdict = "reject" /\ resp.status = 403 /\ ~handlerRan

\* C2 witness: an unexpired GET signature for a named file was presented on
\* PUT for that file and was refused
C2_Witness ==
    /\ verdict = "reject"
    /\ req.method = PUT
    /\ \E tok \in Tokens :
         /\ tok.method = GET /\ tok.filename # <<>> /\ ~After(now, tok.expires)
         /\ req = Bare(PUT, tok.filename, FormatInt(tok.expires),
                       SignatureOf(secretKey, tok))

\* req presents the signature minted for tok with exactly one of method,
\* filename and expires one character away from the minted one
OneCharacterChanged(tok) ==
    /\ req.signature = SignatureOf(secretKey, tok)
    /\ \/ /\ req.method \in Edits(tok.method, MethodAlphabet)
          /\ req.filename = tok.filename
          /\ req.expires = FormatInt(tok.expires)
       \/ /\ req.method = tok.method
          /\ req.filename \in Edits(tok.filename, NameAlphabet)
          /\ req.expires = FormatInt(tok.expires)
       \/ /\ req.method = tok.method
          /\ req.filename = tok.filename
          /\ req.expires \in Edits(FormatInt(tok.expires), ExpiresAlphabet)

\* C3 as stated: a request that presents a minted signature with the method,
\* the filename or the expires parameter changed by one character is rejected.
C3_AnyOneCharacterChangeRejected ==
    \A tok \in Tokens :
      verdict # "pending" /\ OneCharacterChanged(tok) => verdict = "reject"

\* C3 as amended: such a request is rejected unless the changed expires
\* parameter still parses to the integer the token was minted for (a leading
\* "+" or a leading zero, or "-" before 0); a changed method or filename is
\* always rejected.
C3_OneCharacterChangeRejected ==
    \A tok \in Tokens :
      ( /\ verdict # "pending"
        /\ OneCharacterChanged(tok)
        /\ ~( /\ req.expires # FormatInt(tok.expires)
              /\ ~ParseInt(req.expires).err
              /\ ParseInt(req.expires).val = tok.expires ) )
      => verdict = "reject"

\* C3 witness: an unexpired token was presented with one character of its
\* filename changed, and was refused
C3_Witness ==
    /\ verdict = "reject"
    /\ \E tok \in Tokens :
         /\ OneCharacterChanged(tok)
         /\ ~After(now, tok.expires)
         /\ req.filename # tok.filename

\* C4: a token presented as minted is rejected exactly when now > expires: it
\* is accepted at expires = now and rejected at expires = now - 1.
C4_StrictExpiration ==
    verdict # "pending" =>
      /\ \A tok \in Tokens :
           AsMinted(tok) => ((verdict = "reject") <=> After(now, tok.expires))
      /\ \A tok \in Tokens :
           /\ tok.expires = OfNat(now) /\ AsMinted(tok) => verdict = "accept"
           /\ now > 0 /\ tok.expires = OfNat(now - 1) /\ AsMinted(tok)
                => verdict = "reject"
           /\ now = 0 /\ tok.expires = Int64(TRUE, <<"1">>) /\ AsMinted(tok)
                => verdict = "reject"

\* C4 witness: a token minted for now - 1 was presented as minted and refused
C4_Witness ==
    /\ verdict = "reject"
    /\ now > 0
    /\ \E tok \in Tokens : tok.expires = OfNat(now - 1) /\ AsMinted(tok)

\* C12: every validation failure is answered alike: whether a parameter is
\* missing, expires is unparsable, the token is expired or the signature is
\* mismatched, the response is 403 with one fixed body that does not tell
\* which check failed.
C12_OneRejection ==
    verdict = "reject"
      => /\ FailedCheck(req, now) \in {"missing", "unparsable", "expired", "mismatched"}
         /\ resp.status = 403
         /\ resp.body = <<"error", "Invalid or expired URL">>
         /\ resp.filename = <<>>

\* C12 witness: a request whose expires does not parse, both parameters
\* present, was rejected
C12_Witness ==
    /\ verdict = "reject"
    /\ FailedCheck(req, now) = "unparsable"
    /\ resp.status = 403

\* the (method, filename, expires) triples a signature may be minted over:
\* the four methods, filenames that are empty, hold ':' or end in a digit,
\* and expiry times of either sign up to the ends of the int64 range
SigningTriples ==
    { <<m, f, e>> :
        m \in Methods,
        f \in {<<>>} \cup TokenNames \cup Edits(<<"a">>, NameAlphabet),
        e \in TokenExpires \cup { Int64(TRUE, <<"1", "0">>), Int64(FALSE, MaxInt64Mag),
                                 Int64(TRUE, MinInt64Mag) } }

\* C19: the signing string is injective over tokens: for the four methods,
\* any filename (with ':' or empty) and any int64 expires, a triple other
\* than the one the request presents never has the request's signing
\* string, and so never the signature expected of the request.
C19_SigningStringInjective ==
    (verdict # "pending" /\ req.method \in Methods /\ ~ParseInt(req.expires).err)
      => LET e == ParseInt(req.expires).val
         IN  \A t \in SigningTriples :
               t # <<req.method, req.filename, e>>
                 => /\ SigningString(t[1], t[2], t[3])
                         # SigningString(req.method, req.filename, e)
                    /\ Sign(secretKey, t[1], t[2], t[3])
                         # Sign(secretKey, req.method, req.filename, e)

\* C19 witness: a request whose filename ends in ':' was accepted, and a
\* triple with that filename without the ':' is among those compared
C19_Witness ==
    /\ verdict = "accept"
    /\ req.filename = <<"a", ":">>
    /\ <<req.method, <<"a">>, ParseInt(req.expires).val>> \in SigningTriples

(***************************************************************************)
(* The storage directory.  Paths are sequences of elements relative to the *)
(* working directory: <<>> is the working directory itself, the parent of  *)
(* the storage directory.  File system calls fail only for the reasons the *)
(* handlers tell apart (a missing file, a directory in the place of a      *)
(* file) and for the faults drawn with each request.                       *)
(***************************************************************************)
\* uuid.New().String(), two characters standing for the 36 of the text form;
\* an identifier is never returned twice
Uuids == {<<"u", "1">>, <<"u", "2">>}

\* the contents uploaded
Bodies == {<<>>, <<"x", "y">>}

\* fileHeader.Filename of the uploaded part
OrigNames == {<<"c">>, <<"c", ".", "j">>}

\* filepath.Ext(name): the suffix from the last dot, or nothing
Ext(name) ==
    LET dots == { i \in 1..Len(name) : name[i] = "." }
    IN  IF dots = {} THEN <<>>
        ELSE SubSeq(name, CHOOSE i \in dots : \A j \in dots : j <= i, Len(name))

\* filepath.Join(dir, name) for a single path segment: Clean resolves "." and
\* ".." and drops an empty segment
Join(dir, name) ==
    IF name = <<>> \/ name = <<".">> THEN dir
    ELSE IF name = <<".", ".">>
    THEN (IF dir = <<>> THEN <<name>> ELSE SubSeq(dir, 1, Len(dir) - 1))
    ELSE Append(dir, name)

\* whether path names an entry of the storage directory
InsideRoot(path) ==
    /\ Len(path) = Len(uploadDirPath) + 1
    /\ SubSeq(path, 1, Len(uploadDirPath)) = uploadDirPath

\* what os.Stat and os.Open find at path in the directory state <<d, fs>>:
\* "file", "dir" or "absent" (they fail for no other reason)
Stat(path, d, fs) ==
    IF path = <<>> THEN "dir"
    ELSE IF path = uploadDirPath THEN (IF d THEN "dir" ELSE "absent")
    ELSE IF InsideRoot(path) /\ d /\ path[Len(path)] \in DOMAIN fs THEN "file"
    ELSE "absent"

\* fs with the file name holding bytes
WithFile(fs, name, bytes) ==
    [n \in DOMAIN fs \cup {name} |-> IF n = name THEN bytes ELSE fs[n]]

\* a removal that removes nothing
WithoutNothing(fs, name) == fs

\* fs without the file name
WithoutFile(fs, name) == [n \in DOMAIN fs \ {name} |-> fs[n]]

\* the file opened for writing without O_TRUNC: bytes replace the head of old
Overlay(old, bytes) ==
    IF Len(bytes) >= Len(old) THEN bytes
    ELSE bytes \o SubSeq(old, Len(bytes) + 1, Len(old))

\* the file created and nothing copied into it
CreateWithoutCopy(fs, name, bytes, k) == WithFile(fs, name, <<>>)

\* the bytes written over the head of the file, its tail kept
WriteWithoutTruncate(fs, name, bytes, k) ==
    WithFile(fs, name,
             Overlay(IF name \in DOMAIN fs THEN fs[name] ELSE <<>>, SubSeq(bytes, 1, k)))

\* os.Create(path) then io.Copy(file, bytes) stopping after k bytes: the file
\* is truncated and the first k bytes are written
CreateAndCopy(fs, name, bytes, k) == WithFile(fs, name, SubSeq(bytes, 1, k))

\* where io.Copy may stop when it fails on the bytes b
CopyStops(b) == 0..(Len(b) - 1)

Response(status, body, filename) ==
    [status |-> status, body |-> body, filename |-> filename]

\* the body http.ServeFile sends for a directory: its listing
DirListing(fs) == <<"<pre>", DOMAIN fs, "</pre>">>

(***************************************************************************)
(* The server: one request is handled at a time, from the middleware to    *)
(* the response.                                                           *)
(***************************************************************************)
\* names asked for that no upload produced
OtherNames == {<<".">>, <<".", ".">>, <<"n">>}

\* a token minted for (method, filename), expiring at t
Minted(method, filename, t) ==
    <<FormatInt(OfNat(t)), Sign(secretKey, method, filename, OfNat(t))>>

\* the expires and signature of a request the validator accepts at time t
GoodTokens(method, filename, t) == {Minted(method, filename, t)}

\* the expires and signature of requests the validator refuses at time t: a
\* token correctly minted for the request that expired a second ago, and
\* no token
BadTokens(method, filename, t) ==
    { <<FormatInt(e), Sign(secretKey, method, filename, e)>> :
        e \in {IF t = 0 THEN Int64(TRUE, <<"1">>) ELSE OfNat(t - 1)} }
      \cup {<<<<>>, <<>>>>}

\* the state when main starts serving: nothing uploaded, the storage directory
\* present (the image creates it) or not yet; the clock a second before MaxNow
Init ==
    /\ now = MaxNow - 1
    /\ req = NoRequest
    /\ verdict = "pending"
    /\ resp = NoResponse
    /\ handlerRan = FALSE
    /\ dirExists \in BOOLEAN
    /\ files = [n \in {} |-> <<>>]
    /\ issued = {}
    /\ removed = {}
    /\ touched = {}
    /\ overwrote = <<>>
    /\ before = NoBefore
    /\ NoneInFlight

\* the middleware refuses r: 403, c.Abort(), the handler is not called
Refuse(r) ==
    /\ req' = r
    /\ verdict' = "reject"
    /\ resp' = Forbidden
    /\ handlerRan' = FALSE
    /\ touched' = {}
    /\ overwrote' = <<>>
    /\ before' = NoBefore
    /\ UNCHANGED <<now, dirExists, files, issued, removed>>

\* the middleware lets r through: c.Next()
Admit(r) ==
    /\ req' = r
    /\ verdict' = "accept"
    /\ handlerRan' = TRUE

\* the handler body of r runs although validateUrl refused r
SignedURLMiddlewareNoAbort(r) == TRUE

\* SignedURLMiddleware: whether the handler of r runs
SignedURLMiddleware(r) == validateUrl(r, now)

\* GET /images/:filename.  os.Open of an entry that exists succeeds.  c.File
\* is http.ServeFile: it refuses a URL path with a ".." element (400), lists a
\* directory, and sends a file's bytes (the request carries no Range or
\* conditional header; no stored name is index.html, every one starts with
\* an identifier).
GetImage(r) ==
    /\ r.method = GET
    /\ IF ~SignedURLMiddleware(r) THEN Refuse(r)
       ELSE LET path == Join(uploadDirPath, r.filename)
                kind == Stat(path, dirExists, files)
            IN  /\ Admit(r)
                /\ overwrote' = <<>>
                /\ before' =
                     IF /\ resp.status = 200
                        /\ \/ req.method = POST /\ resp.filename = r.filename
                           \/ req.method = PUT /\ req.filename = r.filename
                     THEN [method |-> req.method, body |-> req.body, over |-> overwrote]
                     ELSE NoBefore
                /\ IF kind = "absent"
                   THEN /\ resp' = Response(404, <<>>, <<>>)
                        /\ touched' = {}
                   ELSE /\ touched' = {path}
                        /\ resp' =
                             IF r.filename = <<".", ".">>
                             THEN Response(400, <<>>, <<>>)
                             ELSE IF kind = "dir"
                             THEN Response(200, DirListing(files), <<>>)
                             ELSE Response(200, files[r.filename], <<>>)
                /\ UNCHANGED <<now, dirExists, files, issued, removed>>

\* POST /images, with identifier u from uuid.New().  os.MkdirAll, os.Create
\* and io.Copy may each fail.
PostImage(r, u) ==
    /\ r.method = POST
    /\ IF ~SignedURLMiddleware(r) THEN Refuse(r)
       ELSE /\ Admit(r)
            /\ removed' = {}
            /\ now' = now
            /\ overwrote' = <<>>
            /\ before' = NoBefore
            /\ IF ~r.hasFile
               THEN /\ resp' = Response(400, <<>>, <<>>)
                    /\ touched' = {}
                    /\ UNCHANGED <<dirExists, files, issued>>
               ELSE LET name == u \o Ext(r.origName)
                        path == Join(uploadDirPath, name)
                    IN  /\ issued' = issued \cup {u}
                        /\ \E made \in (IF dirExists THEN {TRUE} ELSE BOOLEAN) :
                           /\ dirExists' = made
                           /\ \/ /\ resp' = Response(500, <<>>, <<>>)
                                 /\ touched' = {}
                                 /\ files' = files
                              \/ /\ made
                                 /\ \E k \in CopyStops(r.body) :
                                      files' = CreateAndCopy(files, name, r.body, k)
                                 /\ resp' = Response(500, <<>>, <<>>)
                                 /\ touched' = {path}
                              \/ /\ made
                                 /\ files' = CreateAndCopy(files, name, r.body, Len(r.body))
                                 /\ resp' = Response(200, <<>>, name)
                                 /\ touched' = {path}

\* the update handler without its os.Stat check
PutChecksNothing(kind) == FALSE

\* os.IsNotExist(err) of os.Stat(path), kind being what is at path
PutNotFound(kind) == kind = "absent"

\* the update handler going on to os.Create without a file part
PutReadsNoBody(r) == FALSE

\* c.FormFile("file") of the update handler fails: no part named file
PutBadRequest(r) == ~r.hasFile

\* PUT /images/:filename.  os.Create and io.Copy may each fail; os.Create
\* fails on a directory.
PutImage(r) ==
    /\ r.method = PUT
    /\ IF ~SignedURLMiddleware(r) THEN Refuse(r)
       ELSE LET path == Join(uploadDirPath, r.filename)
                kind == Stat(path, dirExists, files)
                old == IF kind = "file" THEN files[r.filename] ELSE <<>>
            IN  /\ Admit(r)
                /\ UNCHANGED <<now, dirExists, issued, removed>>
                /\ before' = NoBefore
                /\ IF PutNotFound(kind)
                   THEN /\ resp' = Response(404, <<>>, <<>>)
                        /\ touched' = {}
                        /\ overwrote' = <<>>
                        /\ files' = files
                   ELSE IF PutBadRequest(r)
                   THEN /\ resp' = Response(400, <<>>, <<>>)
                        /\ touched' = {}
                        /\ overwrote' = <<>>
                        /\ files' = files
                   ELSE \/ /\ resp' = Response(500, <<>>, <<>>)
                           /\ touched' = {}
                           /\ overwrote' = <<>>
                           /\ files' = files
                        \/ /\ kind # "dir" /\ InsideRoot(path)
                           /\ \E k \in CopyStops(r.body) :
                                files' = CreateAndCopy(files, r.filename, r.body, k)
                           /\ resp' = Response(500, <<>>, <<>>)
                           /\ touched' = {path}
                           /\ overwrote' = old
                        \/ /\ kind # "dir" /\ InsideRoot(path)
                           /\ files' = CreateAndCopy(files, r.filename, r.body, Len(r.body))
                           /\ resp' = Response(200, <<>>, <<>>)
                           /\ touched' = {path}
                           /\ overwrote' = old

\* a removal that succeeds whatever is at the path, nothing included
RemovesAnything(kind, path, fs) == TRUE

\* whether os.Remove(path) can succeed, kind being what is at path: it unlinks
\* a file and removes an empty directory that is not the working directory
Removable(kind, path, fs) ==
    \/ kind = "file"
    \/ kind = "dir" /\ path = uploadDirPath /\ DOMAIN fs = {}

\* DELETE /images/:filename.  os.Remove may fail on an entry it could remove.
DeleteImage(r) ==
    /\ r.method = DELETE
    /\ IF ~SignedURLMiddleware(r) THEN Refuse(r)
       ELSE LET path == Join(uploadDirPath, r.filename)
                kind == Stat(path, dirExists, files)
                removable == Removable(kind, path, files)
            IN  /\ Admit(r)
                /\ UNCHANGED <<now, issued>>
                /\ overwrote' = <<>>
                /\ before' = NoBefore
                /\ \/ /\ resp' = Response(500, <<>>, <<>>)
                      /\ touched' = {}
                      /\ UNCHANGED <<dirExists, files, removed>>
                   \/ /\ removable
                      /\ resp' = Response(200, <<>>, <<>>)
                      /\ touched' = {path}
                      /\ removed' = removed \cup {r.filename}
                      /\ dirExists' = (dirExists /\ kind = "file")
                      /\ files' = IF kind = "file"
                                  THEN WithoutFile(files, r.filename)
                                  ELSE files

\* the clock moves on
Tick ==
    /\ now < MaxNow
    /\ now' = now + 1
    /\ UNCHANGED <<req, verdict, resp, handlerRan, dirExists, files, issued,
                   removed, touched, overwrote, before>>
    /\ UNCHANGED concVars

\* the file names a request may ask for
AskedNames == OtherNames \cup DOMAIN files \cup removed

\* an identifier source that hands out the same identifier every time
OneUuid == {<<"u", "1">>}

\* uuid.New(): an identifier not handed out before
FreshUuids == IF Uuids \ issued = {} THEN {}
              ELSE {CHOOSE u \in Uuids \ issued : \A v \in Uuids \ issued :
                                           DigitVal(u[2]) <= DigitVal(v[2])}

\* the multipart bodies of a request: no part named file, or one with bytes,
\* sent under one of the names
Uploads(names) ==
    {[hasFile |-> FALSE, origName |-> <<>>, body |-> <<>>]}
      \cup { [hasFile |-> TRUE, origName |-> o, body |-> b] :
               o \in names, b \in Bodies }

\* a request the middleware refuses; its body is never read
Refused ==
    /\ UNCHANGED concVars
    /\ \/ \E f \in AskedNames, m \in {GET, PUT, DELETE} :
          \E tk \in BadTokens(m, f, now) :
            LET r == Bare(m, f, tk[1], tk[2])
            IN  CASE m = GET -> GetImage(r)
                  [] m = PUT -> PutImage(r)
                  [] m = DELETE -> DeleteImage(r)
       \/ \E tk \in BadTokens(POST, <<>>, now) :
            PostImage(Bare(POST, <<>>, tk[1], tk[2]), <<>>)

Get ==
    /\ UNCHANGED concVars
    /\ \E f \in AskedNames : \E tk \in GoodTokens(GET, f, now) :
         GetImage(Bare(GET, f, tk[1], tk[2]))

Post ==
    /\ UNCHANGED concVars
    /\ \E tk \in GoodTokens(POST, <<>>, now), up \in Uploads(OrigNames) :
         LET r == Request(POST, <<>>, tk[1], tk[2], up.hasFile, up.origName, up.body)
         IN  IF ~up.hasFile THEN PostImage(r, <<>>)
             ELSE \E u \in FreshUuids : PostImage(r, u)

Put ==
    /\ UNCHANGED concVars
    /\ \E f \in AskedNames :
         \E tk \in GoodTokens(PUT, f, now), up \in Uploads({<<"c">>}) :
           PutImage(Request(PUT, f, tk[1], tk[2], up.hasFile, up.origName, up.body))

Delete ==
    /\ UNCHANGED concVars
    /\ \E f \in AskedNames : \E tk \in GoodTokens(DELETE, f, now) :
         DeleteImage(Bare(DELETE, f, tk[1], tk[2]))

Next == Refused \/ Get \/ Post \/ Put \/ Delete \/ Tick

Spec == Init /\ [][Next]_vars

(***************************************************************************)
(* Claims about the handlers, checked under Spec.                          *)
(***************************************************************************)
\* what is at the path a request for filename resolves to
At(filename) == Stat(Join(uploadDirPath, filename), dirExists, files)

\* C5: a request the validator rejects, on any of the four protected routes,
\* is answered 403 and its handler body does not run: the storage directory
\* is as it was and no path is opened, created or removed.
C5_NoHandlerPastValidationFailure ==
    [][ (now' = now /\ req'.method \in Methods /\ ~validateUrl(req', now))
          => /\ resp'.status = 403
             /\ ~handlerRan'
             /\ files' = files
             /\ dirExists' = dirExists
             /\ touched' = {} ]_vars

\* C5 witness: a POST whose signature is correct for its expires, which is in
\* the past, was answered 403
C5_Witness ==
    /\ req.method = POST
    /\ ~ParseInt(req.expires).err
    /\ req.signature = Sign(secretKey, POST, <<>>, ParseInt(req.expires).val)
    /\ After(now, ParseInt(req.expires).val)
    /\ resp.status = 403
    /\ ~handlerRan

\* C6: every path a handler opens, overwrites or removes is an entry of the
\* storage directory, never the directory itself or its parent.
C6_PathsStayInsideRoot == \A p \in touched : InsideRoot(p)

\* C7: a validated GET of the filename a POST just returned with 200 is
\* answered 200 with exactly the bytes that POST uploaded.
C7_UploadThenRead ==
    (req.method = GET /\ verdict = "accept" /\ before.method = POST)
      => resp.status = 200 /\ resp.body = before.body

\* C7 witness: a non-empty upload was read back
C7_Witness ==
    /\ req.method = GET /\ verdict = "accept" /\ before.method = POST
    /\ before.body # <<>>
    /\ resp.status = 200

\* C8: a validated GET of the file a PUT just updated with 200 is answered
\* 200 with exactly the bytes of that PUT, whatever the file held before.
C8_UpdateThenRead ==
    (req.method = GET /\ verdict = "accept" /\ before.method = PUT)
      => resp.status = 200 /\ resp.body = before.body

\* C8 witness: an update shorter than the content it replaced was read back
C8_Witness ==
    /\ req.method = GET /\ verdict = "accept" /\ before.method = PUT
    /\ Len(before.body) < Len(before.over)
    /\ resp.status = 200

\* C9: a validated PUT on a filename at which nothing exists is answered 404
\* and writes nothing, with or without a file part.
C9_UpdateOfMissingFile ==
    [][ ( /\ now' = now
          /\ req'.method = PUT
          /\ validateUrl(req', now)
          /\ At(req'.filename) = "absent" )
          => /\ resp'.status = 404
             /\ files' = files
             /\ dirExists' = dirExists ]_vars

\* C9 witness: a validated PUT that carried a file part, on a name that is
\* not stored while another file is, was answered 404
C9_Witness ==
    /\ req.method = PUT /\ verdict = "accept" /\ req.hasFile
    /\ At(req.filename) = "absent"
    /\ DOMAIN files # {}
    /\ resp.status = 404

\* C10: once a DELETE of a name was answered 200, nothing is at that name and
\* a validated GET of it is answered 404, through every following sequence
\* of GET, PUT and DELETE requests.
C10_DeletedStaysGone ==
    \A f \in removed :
      /\ At(f) = "absent"
      /\ (req.method = GET /\ req.filename = f /\ verdict = "accept")
           => resp.status = 404

\* C10 witness: a deleted file was asked for again and was not found
C10_Witness ==
    /\ req.method = GET /\ verdict = "accept"
    /\ req.filename \in removed
    /\ req.filename \in { u \o e : u \in issued, e \in {Ext(o) : o \in OrigNames} }
    /\ resp.status = 404

\* C11: a validated DELETE of a filename at which nothing exists (never
\* created, or already deleted) is answered 500 and leaves the storage
\* directory as it was; so the second of two DELETEs of one object is
\* answered 500.
C11_DeleteOfMissingFile ==
    [][ ( /\ now' = now
          /\ req'.method = DELETE
          /\ validateUrl(req', now)
          /\ At(req'.filename) = "absent" )
          => /\ resp'.status = 500
             /\ files' = files
             /\ dirExists' = dirExists ]_vars

\* C11 witness: an uploaded object whose DELETE was answered 200 was deleted
\* again, while another object is stored, and the answer was 500
C11_Witness ==
    /\ req.method = DELETE /\ verdict = "accept"
    /\ req.filename \in removed
    /\ req.filename \in { u \o e : u \in issued, e \in {Ext(o) : o \in OrigNames} }
    /\ At(req.filename) = "absent"
    /\ DOMAIN files # {}
    /\ resp.status = 500


\* C13: in the PUT handler the existence check comes before the body check
\* and both before any write: a validated PUT without a part named file is
\* answered 400 on an existing file, whose content stays as it was, and 404
\* on a missing file.
C13_UpdateWithoutFilePart ==
    [][ ( /\ now' = now
          /\ req'.method = PUT
          /\ validateUrl(req', now)
          /\ ~req'.hasFile )
          => /\ At(req'.filename) = "file" => resp'.status = 400
             /\ At(req'.filename) = "absent" => resp'.status = 404
             /\ files' = files
             /\ dirExists' = dirExists ]_vars

\* C13 witness: a validated PUT without a file part on a stored file that
\* holds bytes was answered 400
C13_Witness ==
    /\ req.method = PUT /\ verdict = "accept" /\ ~req.hasFile
    /\ At(req.filename) = "file"
    /\ files[req.filename] # <<>>
    /\ resp.status = 400


\* C17: a validated POST that is not answered 200 leaves the storage
\* directory as it was: after a 400 or a 500 no new file, complete or
\* partial, is there; and a POST that could not create the storage directory
\* is answered 500.
C17_FailedUploadLeavesNothing ==
    [][ ( /\ now' = now
          /\ req'.method = POST
          /\ validateUrl(req', now) )
          => /\ resp'.status # 200 => files' = files
             /\ (req'.hasFile /\ ~dirExists /\ ~dirExists') => resp'.status = 500 ]_vars


(***************************************************************************)
(* The handlers served concurrently.  net/http runs every request on its   *)
(* own goroutine and the handlers take no lock, so the file system calls   *)
(* of requests in flight interleave.  One step is one file system call;    *)
(* the middleware, c.FormFile and uuid.New touch nothing shared and are    *)
(* taken together with the call that follows them.  Only requests the      *)
(* middleware lets through are served here, for the names of files that    *)
(* are or were stored, and the file system calls fail for no reason other  *)
(* than a missing file.                                                    *)
(***************************************************************************)
\* the contents sent by concurrent requests: two writes of io.Copy, and one
ConcBodies == {<<"x", "y">>, <<"p">>}

\* fileHeader.Filename of the concurrent uploads
ConcOrigName == <<"c", ".", "j">>

\* a byte of a hole left by a write beyond the end of a file
ZeroByte == "0"

\* the state variables only the sequential handlers change
seqVars == <<now, req, verdict, resp, handlerRan, touched, overwrote, before>>

\* whether worker w is inside a handler
Serving(w) == inflight[w].pc \notin {"idle", "done"}

\* the file names concurrent requests ask for: those a POST has answered
\* with, stored or removed since; the name of an upload still in flight is
\* known to no client
ConcNames ==
    (DOMAIN files \cup removed)
      \ { inflight[w].filename : w \in { v \in Workers : Serving(v) /\ inflight[v].method = POST } }

\* worker w after it answered the request (method, filename)
Done(method, filename, status, out) ==
    [NoWorker EXCEPT !.method = method, !.filename = filename, !.pc = "done",
                     !.status = status, !.out = out]

\* worker w inside the handler of (method, filename) at position pc
Running(method, filename, body, pc) ==
    [NoWorker EXCEPT !.method = method, !.filename = filename, !.body = body,
                     !.pc = pc]

\* file.Write(bytes) at offset off of a file holding old: a write beyond the
\* end leaves a hole of zero bytes
WriteAt(old, off, bytes) ==
    LET padded == IF Len(old) < off
                  THEN old \o [i \in 1..(off - Len(old)) |-> ZeroByte]
                  ELSE old
    IN  SubSeq(padded, 1, off) \o bytes
          \o SubSeq(padded, off + Len(bytes) + 1, Len(padded))

\* GET: the middleware and os.Open(path); 404 when it fails
GetOpen(w, r) ==
    /\ ~Serving(w)
    /\ r.method = GET
    /\ SignedURLMiddleware(r)
    /\ LET kind == Stat(Join(uploadDirPath, r.filename), dirExists, files)
       IN  inflight' = [inflight EXCEPT ![w] =
                          IF kind = "absent" THEN Done(GET, r.filename, 404, <<>>)
                          ELSE Running(GET, r.filename, <<>>, "serve")]
    /\ UNCHANGED <<dirExists, files, issued, removed, lastWriter, uploaded>>
    /\ UNCHANGED seqVars

\* GET: c.File(path), which is http.ServeFile: it opens path again, 404 when
\* that fails, and sends what the file holds then
GetServe(w) ==
    /\ inflight[w].pc = "serve"
    /\ LET f == inflight[w].filename
           kind == Stat(Join(uploadDirPath, f), dirExists, files)
       IN  inflight' = [inflight EXCEPT ![w] =
                          IF kind = "file" THEN Done(GET, f, 200, files[f])
                          ELSE Done(GET, f, 404, <<>>)]
    /\ UNCHANGED <<dirExists, files, issued, removed, lastWriter, uploaded>>
    /\ UNCHANGED seqVars

\* POST: the middleware, c.FormFile (400 without a file part), os.Stat and
\* os.MkdirAll of the storage directory, and the new name from identifier u
PostBegin(w, r, u) ==
    /\ ~Serving(w)
    /\ r.method = POST
    /\ SignedURLMiddleware(r)
    /\ IF ~r.hasFile
       THEN /\ inflight' = [inflight EXCEPT ![w] = Done(POST, <<>>, 400, <<>>)]
            /\ UNCHANGED <<dirExists, issued, uploaded>>
       ELSE LET name == u \o Ext(r.origName)
            IN  /\ inflight' = [inflight EXCEPT ![w] =
                                  Running(POST, name, r.body, "create")]
                /\ dirExists' = TRUE
                /\ issued' = issued \cup {u}
                /\ uploaded' = [n \in DOMAIN uploaded \cup {name} |->
                                  IF n = name THEN {r.body} ELSE uploaded[n]]
    /\ UNCHANGED <<files, removed, lastWriter>>
    /\ UNCHANGED seqVars

\* os.Create(path) of worker w: the file at the name is truncated, or made
\* when nothing is at the name
Create(w) ==
    /\ inflight[w].pc = "create"
    /\ LET f == inflight[w].filename
           b == inflight[w].body
       IN  /\ files' = CreateAndCopy(files, f, b, 0)
           /\ lastWriter' = WithFile(lastWriter, f, b)
           /\ inflight' = [inflight EXCEPT ![w] =
                             IF b = <<>> THEN Done(@.method, f, 200, <<>>)
                             ELSE [@ EXCEPT !.pc = "copy", !.off = 0, !.linked = TRUE]]
    /\ UNCHANGED <<dirExists, issued, removed, uploaded>>
    /\ UNCHANGED seqVars

\* one Write of io.Copy by worker w, at the offset of its own open file; the
\* bytes go to the directory's file of that name unless that was removed
\* since w opened it.  After the last Write the handler answers 200.
Copy(w) ==
    /\ inflight[w].pc = "copy"
    /\ LET f == inflight[w].filename
           b == inflight[w].body
           off == inflight[w].off
       IN  /\ IF inflight[w].linked
              THEN /\ files' = WithFile(files, f, WriteAt(files[f], off, <<b[off + 1]>>))
                   /\ lastWriter' = WithFile(lastWriter, f, b)
              ELSE UNCHANGED <<files, lastWriter>>
           /\ inflight' = [inflight EXCEPT ![w] =
                             IF off + 1 = Len(b) THEN Done(@.method, f, 200, <<>>)
                             ELSE [@ EXCEPT !.off = off + 1]]
    /\ UNCHANGED <<dirExists, issued, removed, uploaded>>
    /\ UNCHANGED seqVars

PostCreate(w) == inflight[w].method = POST /\ Create(w)

PostCopy(w) == inflight[w].method = POST /\ Copy(w)

\* PUT: the middleware, os.Stat(path) (404 when nothing is there) and
\* c.FormFile (400 without a file part)
PutStat(w, r) ==
    /\ ~Serving(w)
    /\ r.method = PUT
    /\ SignedURLMiddleware(r)
    /\ LET f == r.filename
           kind == Stat(Join(uploadDirPath, f), dirExists, files)
       IN  IF PutNotFound(kind)
           THEN /\ inflight' = [inflight EXCEPT ![w] = Done(PUT, f, 404, <<>>)]
                /\ uploaded' = uploaded
           ELSE IF PutBadRequest(r)
           THEN /\ inflight' = [inflight EXCEPT ![w] = Done(PUT, f, 400, <<>>)]
                /\ uploaded' = uploaded
           ELSE /\ inflight' = [inflight EXCEPT ![w] = Running(PUT, f, r.body, "create")]
                /\ uploaded' = [uploaded EXCEPT ![f] = @ \cup {r.body}]
    /\ UNCHANGED <<dirExists, files, issued, removed, lastWriter>>
    /\ UNCHANGED seqVars

PutCreate(w) == inflight[w].method = PUT /\ Create(w)

PutCopy(w) == inflight[w].method = PUT /\ Copy(w)

\* DELETE: the middleware and os.Remove(path); 500 when it fails, 200 when
\* the name is gone.  Files other workers hold open stay open, out of the
\* directory.
DeleteRemove(w, r) ==
    /\ ~Serving(w)
    /\ r.method = DELETE
    /\ SignedURLMiddleware(r)
    /\ LET f == r.filename
           path == Join(uploadDirPath, f)
       IN  IF Removable(Stat(path, dirExists, files), path, files)
           THEN /\ files' = WithoutFile(files, f)
                /\ lastWriter' = WithoutFile(lastWriter, f)
                /\ removed' = removed \cup {f}
                /\ inflight' =
                     [v \in Workers |->
                        IF v = w THEN Done(DELETE, f, 200, <<>>)
                        ELSE IF inflight[v].filename = f
                        THEN [inflight[v] EXCEPT !.linked = FALSE]
                        ELSE inflight[v]]
           ELSE /\ inflight' = [inflight EXCEPT ![w] = Done(DELETE, f, 500, <<>>)]
                /\ UNCHANGED <<files, lastWriter, removed>>
    /\ UNCHANGED <<dirExists, issued, uploaded>>
    /\ UNCHANGED seqVars

\* the multipart bodies of the concurrent requests: no part named file, or
\* one holding one of bodies
ConcUploads(bodies) ==
    {[hasFile |-> FALSE, origName |-> <<>>, body |-> <<>>]}
      \cup { [hasFile |-> TRUE, origName |-> ConcOrigName, body |-> b] :
               b \in bodies }

ConcGet ==
    \E w \in Workers :
      \/ \E f \in ConcNames : \E tk \in GoodTokens(GET, f, now) :
           GetOpen(w, Bare(GET, f, tk[1], tk[2]))
      \/ GetServe(w)

ConcPost ==
    \E w \in Workers :
      \/ \E tk \in GoodTokens(POST, <<>>, now), up \in ConcUploads({<<"x", "y">>}) :
           LET r == Request(POST, <<>>, tk[1], tk[2], up.hasFile, up.origName, up.body)
           IN  IF ~up.hasFile THEN PostBegin(w, r, <<>>)
               ELSE \E u \in FreshUuids : PostBegin(w, r, u)
      \/ PostCreate(w)
      \/ PostCopy(w)

ConcPut ==
    \E w \in Workers :
      \/ \E f \in ConcNames :
         \E tk \in GoodTokens(PUT, f, now), up \in ConcUploads(ConcBodies) :
           PutStat(w, Request(PUT, f, tk[1], tk[2], up.hasFile, up.origName, up.body))
      \/ PutCreate(w)
      \/ PutCopy(w)

ConcDelete ==
    \E w \in Workers, f \in ConcNames : \E tk \in GoodTokens(DELETE, f, now) :
      DeleteRemove(w, Bare(DELETE, f, tk[1], tk[2]))

NextConc == ConcGet \/ ConcPost \/ ConcPut \/ ConcDelete

\* the storage directory is there when the server starts (the image makes it)
InitConc == Init /\ dirExists

SpecConc == InitConc /\ [][NextConc]_vars


(***************************************************************************)
(* Claims about concurrent requests, checked under SpecConc.               *)
(***************************************************************************)
\* worker w has answered a request (method, f) with status
Answered(w, method, f, status) ==
    /\ inflight[w].pc = "done"
    /\ inflight[w].method = method
    /\ inflight[w].filename = f
    /\ inflight[w].status = status

\* C14: when two validated PUTs on one existing file, served concurrently,
\* have both been answered 200, the file holds the body of the update that
\* wrote to it last.
C14_LastWriterWins ==
    \A f \in DOMAIN files :
      (\A w \in Workers : Answered(w, PUT, f, 200)) => files[f] = lastWriter[f]

\* C15: an update is never an upsert: no step of a PUT makes an absent name
\* present, and a name whose DELETE was answered 200 is absent ever after,
\* also when a PUT of it had passed its existence check before the DELETE.
C15_UpdateNeverCreates ==
    [][ /\ \A f \in removed' : f \notin DOMAIN files'
        /\ \A w \in Workers :
             (inflight'[w] # inflight[w] /\ inflight'[w].method = PUT)
               => DOMAIN files' \subseteq DOMAIN files ]_vars

\* C16: a GET served while PUT and DELETE requests on the same name are in
\* flight is answered 404, or 200 with one complete body that a POST or PUT
\* sent for that name; never 200 with an empty, truncated or mixed body.
C16_ReadSeesCompleteBody ==
    \A w \in Workers :
      (inflight[w].pc = "done" /\ inflight[w].method = GET)
        => \/ inflight[w].status = 404
           \/ /\ inflight[w].status = 200
              /\ inflight[w].filename \in DOMAIN uploaded
              /\ inflight[w].out \in uploaded[inflight[w].filename]


\* C18: a validated POST only adds: the name it creates is that of no stored
\* file and of no other upload in flight, and no step of it changes the name
\* or the bytes of a file stored under another name; also when two POSTs
\* with the same original filename are served concurrently.
C18_UploadOnlyAdds ==
    [][ \A w \in Workers :
          (inflight'[w] # inflight[w] /\ inflight'[w].method = POST)
            => LET name == inflight'[w].filename
               IN  /\ \A f \in DOMAIN files \ {name} :
                        f \in DOMAIN files' /\ files'[f] = files[f]
                   /\ inflight[w].pc = "create" => name \notin DOMAIN files
                   /\ \A v \in Workers \ {w} :
                        (Serving(v) /\ inflight[v].method = POST)
                          => inflight[v].filename # name ]_vars

\* C18 witness: two uploads of the same original filename are in flight
\* together, each having written the first part of its body to its own file
C18_Witness ==
    /\ \A w \in Workers :
         /\ inflight[w].method = POST
         /\ inflight[w].pc = "copy"
         /\ inflight[w].off = Len(inflight[w].body) - 1
         /\ inflight[w].filename \in DOMAIN files
    /\ Cardinality(DOMAIN files) = Cardinality(Workers)

====
